---- MODULE Spec2Model ----
(***************************************************************************)
(* A model of goalbert, a client library for the Albert launcher's         *)
(* external-plugin protocol.  src/albert.go holds three revisions of the   *)
(* package:                                                                *)
(*   "Run"          the Plugin interface, DefaultPlugin and Run            *)
(*                  (lines 1-232);                                         *)
(*   "Start"        the HookSet registry and HookSet.Start                 *)
(*                  (lines 234-424);                                       *)
(*   "StartVariant" the earlier HookSet.Start (lines 426-597).             *)
(* One process invocation configures the plugin, dispatches exactly one    *)
(* operation and terminates.  Standard output is modelled as the string    *)
(* of bytes written so far; JSON encoding builds the actual wire text.     *)
(***************************************************************************)
EXTENDS Integers, Sequences, FiniteSets, TLC

VARIABLES
    impl,            \* which revision of the package the process links
    ALBERT_OP,       \* environment: the operation selector
    ALBERT_QUERY,    \* environment: the query text
    p,               \* the DefaultPlugin handed to Run
    pluginMetadata,  \* the package-level Metadata of the HookSet revisions
    h,               \* the HookSet: field name -> is an author hook set
    cmd,             \* the exec.Cmd last passed to NewQueryAction
    action,          \* the QueryAction NewQueryAction last returned
    pc,              \* "config", "exited", "returned" or "panicked"
    exitCode,        \* the argument of os.Exit (2 for a runtime panic)
    output,          \* the bytes written to standard output
    invoked,         \* the callbacks the dispatcher invoked, in order
    ret,             \* what the invoked author callback returned
    opErr,           \* the error RunOp returned to Run
    encFailed        \* whether encoding the value to be written failed

vars == <<impl, ALBERT_OP, ALBERT_QUERY, p, pluginMetadata, h, cmd, action,
          pc, exitCode, output, invoked, ret, opErr, encFailed>>

confVars == <<p, pluginMetadata, h, cmd, action>>
runVars  == <<pc, exitCode, output, invoked, ret, opErr, encFailed>>

----------------------------------------------------------------------------
(* Bounds of the model *)

\* author callbacks return the codes 0..MaxCode and 255
MaxCode == 1
\* the argument vectors of an exec.Cmd have 0..MaxArgs elements
MaxArgs == 2

----------------------------------------------------------------------------
(* Protocol constants *)

protocolVersion == "org.albert.extension.external/v2.0"
defaultProtocolVersion == "org.albert.extension.external/v2.0"

OpMetadata        == "METADATA"
OpName            == "NAME"
OpInitialize      == "INITIALIZE"
OpFinalize        == "FINALIZE"
OpSetupSession    == "SETUPSESSION"
OpTeardownSession == "TEARDOWNSESSION"
OpQuery           == "QUERY"

Ops == {OpMetadata, OpName, OpInitialize, OpFinalize, OpSetupSession,
        OpTeardownSession, OpQuery}

LifecycleOps == {OpInitialize, OpFinalize, OpSetupSession, OpTeardownSession}

\* the values the host (or anything else) may leave in ALBERT_OP
OpSelectors == Ops \cup {"", "metadata"}

Queries == {"", "mytrigger foo"}

Codes == (0..MaxCode) \cup {255}

----------------------------------------------------------------------------
(* Go values *)

\* a Go slice of strings: nil, or a (possibly empty) sequence
NilSlice == [isNil |-> TRUE, elems |-> <<>>]
Slice(s) == [isNil |-> FALSE, elems |-> s]

\* error values: nil, an error without a code, an AlbertError value, and a
\* pointer to an AlbertError (which also implements error)
NoErr == [kind |-> "nil", Code |-> 0]
PlainErr == [kind |-> "error", Code |-> 0]
AlbertError(c) == [kind |-> "AlbertError", Code |-> c]
AlbertErrorPtr(c) == [kind |-> "*AlbertError", Code |-> c]

Errs == {NoErr, PlainErr} \cup {AlbertError(c) : c \in Codes}
                          \cup {AlbertErrorPtr(c) : c \in Codes}

Metadata(iid, name, version, author, deps, trigger) ==
    [IID |-> iid, Name |-> name, Version |-> version, Author |-> author,
     Dependencies |-> deps, Trigger |-> trigger]

QueryAction(name, command, arguments) ==
    [Name |-> name, Command |-> command, Arguments |-> arguments]

QueryItem(id, name, actions) ==
    [ID |-> id, Name |-> name, Description |-> "", Completion |-> "",
     Icon |-> "", Actions |-> actions]

\* QueryResult{}: Items is the nil slice
EmptyQueryResult == [Items |-> [isNil |-> TRUE, elems |-> <<>>]]

QueryResults ==
    { EmptyQueryResult,
      [Items |-> [isNil |-> FALSE, elems |-> <<>>]],
      [Items |-> [isNil |-> FALSE, elems |->
          << QueryItem("1", "Open",
                 [isNil |-> FALSE, elems |->
                     << QueryAction("go", "/bin/true", Slice(<<>>)) >>]) >>]] }

\* HookSet: one field per operation; TRUE when the author set the field
HookFields == Ops
HookSets == [HookFields -> BOOLEAN]
EmptyHookSet == [f \in HookFields |-> FALSE]

----------------------------------------------------------------------------
(* encoding/json: the wire text of the data model *)

Quote(s) == "\"" \o s \o "\""

RECURSIVE JoinStrings(_)
JoinStrings(s) ==
    IF s = <<>> THEN ""
    ELSE IF Len(s) = 1 THEN Quote(s[1])
    ELSE Quote(s[1]) \o "," \o JoinStrings(Tail(s))

MarshalStrings(sl) ==
    IF sl.isNil THEN "null" ELSE "[" \o JoinStrings(sl.elems) \o "]"

MarshalMetadata(m) ==
    "{\"iid\":" \o Quote(m.IID) \o ",\"name\":" \o Quote(m.Name) \o
    ",\"version\":" \o Quote(m.Version) \o ",\"author\":" \o Quote(m.Author) \o
    ",\"dependencies\":" \o MarshalStrings(m.Dependencies) \o
    ",\"trigger\":" \o Quote(m.Trigger) \o "}"

MarshalAction(a) ==
    "{\"name\":" \o Quote(a.Name) \o ",\"command\":" \o Quote(a.Command) \o
    ",\"arguments\":" \o MarshalStrings(a.Arguments) \o "}"

RECURSIVE JoinActions(_)
JoinActions(s) ==
    IF s = <<>> THEN ""
    ELSE IF Len(s) = 1 THEN MarshalAction(s[1])
    ELSE MarshalAction(s[1]) \o "," \o JoinActions(Tail(s))

MarshalItem(i) ==
    "{\"id\":" \o Quote(i.ID) \o ",\"name\":" \o Quote(i.Name) \o
    ",\"description\":" \o Quote(i.Description) \o
    ",\"completion\":" \o Quote(i.Completion) \o
    ",\"icon\":" \o Quote(i.Icon) \o ",\"actions\":" \o
    (IF i.Actions.isNil THEN "null"
     ELSE "[" \o JoinActions(i.Actions.elems) \o "]") \o "}"

RECURSIVE JoinItems(_)
JoinItems(s) ==
    IF s = <<>> THEN ""
    ELSE IF Len(s) = 1 THEN MarshalItem(s[1])
    ELSE MarshalItem(s[1]) \o "," \o JoinItems(Tail(s))

MarshalQueryResult(r) ==
    "{\"items\":" \o
    (IF r.Items.isNil THEN "null" ELSE "[" \o JoinItems(r.Items.elems) \o "]")
    \o "}"

\* What the encoder and the output sink may do on one call: succeed, fail to
\* serialize, or fail to write (having written nothing, or only a prefix).
EncOutcomes == {"ok", "marshalErr", "writeErrNone", "writeErrPartial"}

\* json.NewEncoder(p.Output).Encode(v): serialize, then write text and "\n"
EncoderEncode(js, enc) ==
    [err |-> IF enc = "ok" THEN NoErr ELSE PlainErr,
     out |-> CASE enc = "ok" -> js \o "\n"
               [] enc = "writeErrPartial" -> "{"
               [] OTHER -> ""]

\* p.Output.Write(bytes)
OutputWrite(s, enc) ==
    [err |-> IF enc \in {"writeErrNone", "writeErrPartial"}
             THEN PlainErr ELSE NoErr,
     out |-> IF enc \in {"writeErrNone", "writeErrPartial"} THEN "" ELSE s]

\* json.Marshal(v): the text and an error
JsonMarshal(js, enc) ==
    IF enc = "marshalErr" THEN [js |-> "", err |-> PlainErr]
    ELSE [js |-> js, err |-> NoErr]

----------------------------------------------------------------------------
(* Configuration *)

Names == {"plugin_name", "demo"}
Triggers == {"t"}
ActionNames == {"Browse to Facebook", "Browse to Google"}
DepChoices == {NilSlice, Slice(<<>>), Slice(<<"curl">>)}

\* pre-constructed Metadata values an author passes to SetMetadata
MetadataChoices ==
    { Metadata("", "demo", "0.1", "coxley", Slice(<<>>), "t"),
      Metadata(protocolVersion, "demo", "0.1", "coxley", Slice(<<>>), "t") }

\* exec.Cmd values: an executable path and an argument vector of 0..MaxArgs
\* words (exec.Command puts the name first; a literal Cmd may leave Args empty)
ArgWords == {"google-chrome-stable", "www.facebook.com", "www.google.com"}
ArgVectors == UNION { [1..n -> ArgWords] : n \in 0..MaxArgs }
ExecCmds == [Path : {"/usr/bin/google-chrome-stable", "/bin/true"},
             Args : ArgVectors]

NoCmd == [Path |-> "", Args |-> <<>>]
\* action.status: "none" before any call, "ok" for a returned QueryAction,
\* "panic" when the call panicked (slice bounds out of range)
NoAction == [status |-> "none", Name |-> "", Command |-> "", Arguments |-> NilSlice]
Panic == [status |-> "panic", Name |-> "", Command |-> "", Arguments |-> NilSlice]

NewPlugin(name, version, author, trigger, qc) ==
    [Meta |-> Metadata(defaultProtocolVersion, name, version, author,
                       Slice(<<>>), trigger),
     QueryCallback |-> qc]

\* cmd.Args[1:] panics when the vector has no element
NewQueryAction(name, c) ==
    IF Len(c.Args) < 1 THEN Panic
    ELSE [status |-> "ok", Name |-> name, Command |-> c.Path,
          Arguments |-> Slice(Tail(c.Args))]

\* the earlier revision does not strip argv[0]
NewQueryActionVariant(name, c) ==
    [status |-> "ok", Name |-> name, Command |-> c.Path,
     Arguments |-> IF c.Args = <<>> THEN NilSlice ELSE Slice(c.Args)]

----------------------------------------------------------------------------
(* The Plugin revision: DefaultPlugin.Query, DefaultPlugin.RunOp and Run *)

NoRet == [called |-> FALSE, err |-> NoErr, code |-> 0]
NoExit == -1

Hook(f) == [fn |-> "hook", field |-> f]
Default(f) == [fn |-> "default", field |-> f]

\* what an author's QueryCallback may return
CallbackReturns == [res : QueryResults, err : Errs]

\* p.Query(query); cb is what the QueryCallback returns when it is called
DefaultPluginQuery(pl, query, cb) ==
    IF pl.QueryCallback
    THEN [res |-> cb.res, err |-> cb.err, invoked |-> <<Hook(OpQuery)>>,
          ret |-> [called |-> TRUE, err |-> cb.err, code |-> 0]]
    ELSE [res |-> EmptyQueryResult, err |-> AlbertError(255),
          invoked |-> <<Default(OpQuery)>>, ret |-> NoRet]

RunOpResult(err, out, inv, r, ef) ==
    [err |-> err, out |-> out, invoked |-> inv, ret |-> r, encFailed |-> ef]

\* p.RunOp(op): the error returned and the bytes written to p.Output
RunOp(pl, op, query, cb, enc) ==
    CASE op = OpMetadata ->
           LET e == EncoderEncode(MarshalMetadata(pl.Meta), enc)
           IN  RunOpResult(e.err, e.out, <<Default(op)>>, NoRet, enc # "ok")
      [] op = OpName ->
           LET w == OutputWrite(pl.Meta.Name, enc)
           IN  RunOpResult(w.err, w.out, <<Default(op)>>, NoRet, FALSE)
      [] op \in LifecycleOps ->
           RunOpResult(NoErr, "", <<Default(op)>>, NoRet, FALSE)
      [] op = OpQuery ->
           LET q == DefaultPluginQuery(pl, query, cb)
               e == EncoderEncode(MarshalQueryResult(q.res), enc)
           IN  IF q.err # NoErr
               THEN RunOpResult(q.err, "", q.invoked, q.ret, FALSE)
               ELSE RunOpResult(e.err, e.out, q.invoked, q.ret, enc # "ok")
      [] OTHER ->
           RunOpResult(AlbertError(255), "", <<>>, NoRet, FALSE)

\* a Run that ignores the code an AlbertError carries
RunExitCodeIgnoringCode(err) ==
    IF err # NoErr THEN 255 ELSE 0

\* the argument Run passes to os.Exit for the error RunOp returned
RunExitCode(err) ==
    IF err # NoErr
    THEN IF err.kind = "AlbertError" THEN err.Code ELSE 255
    ELSE 0

----------------------------------------------------------------------------
(* The HookSet revisions: the default hooks, handleQueryResult and Start *)

\* what an author's hook may do: print text, return a result and a code
HookOuts == {"", "custom"}
HookReturns == [out : HookOuts, res : QueryResults, code : Codes]

StartResult(state, code, out, inv, r, ef) ==
    [pc |-> state, exitCode |-> code, out |-> out, invoked |-> inv,
     ret |-> r, encFailed |-> ef]

\* defaultMetadata: the Marshal error is discarded
defaultMetadata(meta, enc) ==
    LET m == JsonMarshal(MarshalMetadata(meta), enc)
    IN  [code |-> 0, out |-> m.js, encFailed |-> m.err # NoErr]

\* defaultHookSet: the built-in hook of each of the six non-query fields
defaultHookSet(f, meta, enc) ==
    CASE f = OpMetadata -> defaultMetadata(meta, enc)
      [] f = OpName -> [code |-> 0, out |-> meta.Name, encFailed |-> FALSE]
      [] OTHER -> [code |-> 0, out |-> "", encFailed |-> FALSE]

\* defaultHookSet.Query
defaultQuery(query) == [res |-> EmptyQueryResult, code |-> 255]

\* handleQueryResult(res, code): marshal, print, exit
handleQueryResult(res, code, enc) ==
    LET m == JsonMarshal(MarshalQueryResult(res), enc)
    IN  IF m.err # NoErr
        THEN [exitCode |-> 255, out |-> "", encFailed |-> TRUE]
        ELSE [exitCode |-> code, out |-> m.js, encFailed |-> FALSE]

HookRet(hk) == [called |-> TRUE, err |-> NoErr, code |-> hk.code]

\* h.Start(): hk is what the author's hook does when it is called
HookSetStart(hs, meta, op, query, hk, enc) ==
    CASE op \in Ops \ {OpQuery} ->
           IF hs[op]
           THEN StartResult("exited", hk.code, hk.out, <<Hook(op)>>,
                            HookRet(hk), FALSE)
           ELSE LET d == defaultHookSet(op, meta, enc)
                IN  StartResult("exited", d.code, d.out, <<Default(op)>>,
                                NoRet, d.encFailed)
      [] op = OpQuery ->
           IF hs[op]
           THEN LET r == handleQueryResult(hk.res, hk.code, enc)
                IN  StartResult("exited", r.exitCode, r.out, <<Hook(op)>>,
                                HookRet(hk), r.encFailed)
           ELSE LET q == defaultQuery(query)
                    r == handleQueryResult(q.res, q.code, enc)
                IN  StartResult("exited", r.exitCode, r.out, <<Default(op)>>,
                                NoRet, r.encFailed)
      [] OTHER ->
           StartResult("returned", NoExit, "", <<>>, NoRet, FALSE)

\* the earlier h.Start(): every fallback is defaultHookSet.Metadata, and the
\* Query hook's code goes to os.Exit without any result being written
HookSetStartVariant(hs, meta, op, query, hk, enc) ==
    CASE op \in Ops ->
           IF hs[op]
           THEN StartResult("exited", hk.code,
                            IF op = OpQuery THEN "" ELSE hk.out,
                            <<Hook(op)>>, HookRet(hk), FALSE)
           ELSE LET d == defaultMetadata(meta, enc)
                IN  StartResult("exited", d.code, d.out,
                                <<Default(OpMetadata)>>, NoRet, d.encFailed)
      [] OTHER ->
           StartResult("returned", NoExit, "", <<>>, NoRet, FALSE)

----------------------------------------------------------------------------
(* The state machine *)

Impls == {"Run", "Start", "StartVariant"}

Init ==
    /\ impl \in Impls
    /\ ALBERT_OP \in OpSelectors
    /\ ALBERT_QUERY \in IF ALBERT_OP = OpQuery THEN Queries ELSE {""}
    /\ p \in IF impl = "Run"
             THEN {NewPlugin(n, "0.1", "coxley", t, qc) :
                      n \in Names, t \in Triggers, qc \in BOOLEAN}
             ELSE {NewPlugin("", "", "", "", FALSE)}
    /\ pluginMetadata =
          IF impl = "Start"
          THEN Metadata(protocolVersion, "", "", "", NilSlice, "")
          ELSE Metadata("", "", "", "", NilSlice, "")
    /\ h \in IF impl = "Run" THEN {EmptyHookSet} ELSE HookSets
    /\ cmd = NoCmd
    /\ action = NoAction
    /\ pc = "config"
    /\ exitCode = NoExit
    /\ output = ""
    /\ invoked = <<>>
    /\ ret = NoRet
    /\ opErr = NoErr
    /\ encFailed = FALSE

Hooked == impl \in {"Start", "StartVariant"}

CallNewPlugin ==
    /\ pc = "config" /\ impl = "Run"
    /\ \E n \in Names, t \in Triggers, qc \in BOOLEAN :
          p' = NewPlugin(n, "0.1", "coxley", t, qc)
    /\ UNCHANGED <<impl, ALBERT_OP, ALBERT_QUERY, pluginMetadata, h, cmd,
                   action>>
    /\ UNCHANGED runVars

SetInfo ==
    /\ pc = "config" /\ Hooked
    /\ \E n \in Names :
          pluginMetadata' = [pluginMetadata EXCEPT
              !.Name = n, !.Version = "0.1", !.Author = "coxley"]
    /\ UNCHANGED <<impl, ALBERT_OP, ALBERT_QUERY, p, h, cmd, action>>
    /\ UNCHANGED runVars

SetTrigger ==
    /\ pc = "config" /\ Hooked
    /\ \E t \in Triggers : pluginMetadata' = [pluginMetadata EXCEPT !.Trigger = t]
    /\ UNCHANGED <<impl, ALBERT_OP, ALBERT_QUERY, p, h, cmd, action>>
    /\ UNCHANGED runVars

SetDependencies ==
    /\ pc = "config" /\ Hooked
    /\ \E d \in DepChoices :
          pluginMetadata' = [pluginMetadata EXCEPT !.Dependencies = d]
    /\ UNCHANGED <<impl, ALBERT_OP, ALBERT_QUERY, p, h, cmd, action>>
    /\ UNCHANGED runVars

SetMetadata ==
    /\ pc = "config" /\ Hooked
    /\ \E m \in MetadataChoices : pluginMetadata' = m
    /\ UNCHANGED <<impl, ALBERT_OP, ALBERT_QUERY, p, h, cmd, action>>
    /\ UNCHANGED runVars

\* a panic outside any recover ends the process with status 2
CallNewQueryAction ==
    /\ pc = "config"
    /\ \E n \in ActionNames, c \in ExecCmds :
          LET a == IF impl = "StartVariant"
                   THEN NewQueryActionVariant(n, c)
                   ELSE NewQueryAction(n, c)
          IN  /\ cmd' = c
              /\ action' = a
              /\ pc' = IF a.status = "panic" THEN "panicked" ELSE pc
              /\ exitCode' = IF a.status = "panic" THEN 2 ELSE exitCode
    /\ UNCHANGED <<impl, ALBERT_OP, ALBERT_QUERY, p, pluginMetadata, h>>
    /\ UNCHANGED <<output, invoked, ret, opErr, encFailed>>

Run ==
    /\ pc = "config" /\ impl = "Run"
    /\ \E cb \in CallbackReturns, enc \in EncOutcomes :
          LET r == RunOp(p, ALBERT_OP, ALBERT_QUERY, cb, enc)
          IN  /\ pc' = "exited"
              /\ exitCode' = RunExitCode(r.err)
              /\ output' = output \o r.out
              /\ invoked' = invoked \o r.invoked
              /\ ret' = r.ret
              /\ opErr' = r.err
              /\ encFailed' = r.encFailed
    /\ UNCHANGED <<impl, ALBERT_OP, ALBERT_QUERY>>
    /\ UNCHANGED confVars

Dispatched(r) ==
    /\ pc' = r.pc
    /\ exitCode' = r.exitCode
    /\ output' = output \o r.out
    /\ invoked' = invoked \o r.invoked
    /\ ret' = r.ret
    /\ opErr' = opErr
    /\ encFailed' = r.encFailed

Start ==
    /\ pc = "config" /\ impl = "Start"
    /\ \E hk \in HookReturns, enc \in {"ok", "marshalErr"} :
          Dispatched(HookSetStart(h, pluginMetadata, ALBERT_OP, ALBERT_QUERY,
                                  hk, enc))
    /\ UNCHANGED <<impl, ALBERT_OP, ALBERT_QUERY>>
    /\ UNCHANGED confVars

StartVariant ==
    /\ pc = "config" /\ impl = "StartVariant"
    /\ \E hk \in HookReturns, enc \in {"ok", "marshalErr"} :
          Dispatched(HookSetStartVariant(h, pluginMetadata, ALBERT_OP,
                                         ALBERT_QUERY, hk, enc))
    /\ UNCHANGED <<impl, ALBERT_OP, ALBERT_QUERY>>
    /\ UNCHANGED confVars

Next ==
    \/ CallNewPlugin
    \/ SetInfo
    \/ SetTrigger
    \/ SetDependencies
    \/ SetMetadata
    \/ Run
    \/ Start
    \/ StartVariant

Spec == Init /\ [][Next]_vars

\* The HookSet revision on its own: configure through the setters, then
\* h.Start().
InitStart == Init /\ impl = "Start"

NextStart ==
    \/ SetInfo
    \/ SetTrigger
    \/ SetDependencies
    \/ SetMetadata
    \/ Start

SpecStart == InitStart /\ [][NextStart]_vars

\* The action constructor on its own: a process that only builds actions.
InitAction ==
    /\ impl \in Impls
    /\ ALBERT_OP = ""
    /\ ALBERT_QUERY = ""
    /\ p = NewPlugin("", "", "", "", FALSE)
    /\ pluginMetadata = Metadata("", "", "", "", NilSlice, "")
    /\ h = EmptyHookSet
    /\ cmd = NoCmd
    /\ action = NoAction
    /\ pc = "config"
    /\ exitCode = NoExit
    /\ output = ""
    /\ invoked = <<>>
    /\ ret = NoRet
    /\ opErr = NoErr
    /\ encFailed = FALSE

NextAction == CallNewQueryAction

SpecAction == InitAction /\ [][NextAction]_vars

TypeOK ==
    /\ impl \in Impls
    /\ pc \in {"config", "exited", "returned", "panicked"}
    /\ exitCode \in Codes \cup {NoExit, 2}
    /\ Len(invoked) <= 1

----------------------------------------------------------------------------
(* Properties *)

\* the dispatcher has run (it exited the process or returned to its caller)
Done == pc \in {"exited", "returned"}

\* the operation's author callback is registered
HasHook(f) == IF impl = "Run" THEN f = OpQuery /\ p.QueryCallback ELSE h[f]

\* the Metadata the built-in METADATA behaviour serializes
ConfiguredMetadata == IF impl = "Run" THEN p.Meta ELSE pluginMetadata

\* the invoked author callback reported a failure
HookFailed == ret.called /\ (ret.err # NoErr \/ ret.code # 0)

\* C1: for each recognized operation whose hook is absent from the HookSet,
\* Start invokes that operation's own built-in default and no other: NAME
\* writes only the configured name and exits 0, the lifecycle operations
\* write nothing and exit 0, METADATA writes the metadata and exits 0
\* (encoding taken to succeed).
C1_OwnDefault ==
    (Hooked /\ Done /\ ALBERT_OP \in Ops /\ ~h[ALBERT_OP] /\ ~encFailed) =>
        /\ pc = "exited"
        /\ invoked = <<Default(ALBERT_OP)>>
        /\ ALBERT_OP = OpName =>
               output = pluginMetadata.Name /\ exitCode = 0
        /\ ALBERT_OP \in LifecycleOps => output = "" /\ exitCode = 0
        /\ ALBERT_OP = OpMetadata =>
               output = MarshalMetadata(pluginMetadata) /\ exitCode = 0

\* C2: for every operation selector outside the seven recognized names,
\* the empty string included, the dispatcher terminates the process with
\* exit code 255 and writes nothing, whichever hooks are registered.
C2_UnknownOpExits255 ==
    (Done /\ ALBERT_OP \notin Ops) =>
        pc = "exited" /\ exitCode = 255 /\ output = ""

\* C3: when the operation run by Run returns an error, the exit code is the
\* error's Code, verbatim, if the error is an AlbertError, and 255 otherwise;
\* in particular an AlbertError returned by the QueryCallback reaches os.Exit
\* with its own Code, and an error without one gives 255.
C3_ExitCodeFromError ==
    (impl = "Run" /\ pc = "exited") =>
        /\ opErr # NoErr =>
               exitCode = IF opErr.kind = "AlbertError" THEN opErr.Code
                          ELSE 255
        /\ (ret.called /\ ret.err # NoErr) =>
               /\ opErr = ret.err
               /\ ret.err.kind = "AlbertError" => exitCode = ret.err.Code
               /\ ret.err.kind # "AlbertError" => exitCode = 255

\* C3 witness: a QueryCallback returned an AlbertError whose Code is neither
\* 0 nor 255, and the process exited with that code.
C3_Witness ==
    /\ impl = "Run" /\ pc = "exited" /\ ALBERT_OP = OpQuery
    /\ ret.called /\ ret.err = AlbertError(1)
    /\ exitCode = 1

\* C4: when the operation is QUERY and no author Query hook is registered,
\* the process exits with code 255 and nothing at all is written, for every
\* query text.
C4_DefaultQueryNoPayload ==
    (impl \in {"Run", "Start"} /\ Done /\ ALBERT_OP = OpQuery
        /\ ~HasHook(OpQuery)) =>
        pc = "exited" /\ exitCode = 255 /\ output = ""

\* C5: for QUERY with a registered Query hook, a payload is written only
\* when the process exits 0; whenever the hook reports a failure (an error
\* or a non-zero code) the process exits non-zero, 255 for an error without
\* a code, and nothing has been written (encoding taken to succeed).
C5_PayloadOnlyOnSuccess ==
    (impl \in {"Run", "Start"} /\ Done /\ ALBERT_OP = OpQuery
        /\ HasHook(OpQuery) /\ ~encFailed) =>
        /\ pc = "exited"
        /\ output # "" => exitCode = 0
        /\ HookFailed => exitCode # 0 /\ output = ""
        /\ ret.err.kind = "error" => exitCode = 255

\* C6: for every command descriptor, with an argument vector of any length,
\* NewQueryAction returns, without failing, an action whose Command is the
\* executable path and whose Arguments is the vector without its first
\* element (empty for an empty or one-element vector).
C6_StripsFirstArgument ==
    (impl # "StartVariant" /\ cmd # NoCmd) =>
        /\ pc # "panicked"
        /\ action.status = "ok"
        /\ action.Command = cmd.Path
        /\ action.Arguments.elems =
               IF Len(cmd.Args) <= 1 THEN <<>> ELSE Tail(cmd.Args)

\* C7: whatever the operation selector and the registry, one dispatcher run
\* invokes at most one hook, once, and ends in process exit: no branch
\* returns to the caller without terminating the process.
C7_OneHookThenExit ==
    pc # "config" => pc = "exited" /\ Len(invoked) <= 1

\* C8: after any sequence of configuration calls, the metadata written by
\* the default METADATA operation has iid equal to the protocol-version
\* literal.
C8_MetadataIID ==
    (impl \in {"Run", "Start"} /\ Done /\ ALBERT_OP = OpMetadata
        /\ invoked = <<Default(OpMetadata)>> /\ ~encFailed) =>
        output = MarshalMetadata([ConfiguredMetadata EXCEPT
                                     !.IID = "org.albert.extension.external/v2.0"])
                 \o (IF impl = "Run" THEN "\n" ELSE "")

C10_ErrorNeverExitsZero ==
    (impl = "Run" /\ pc = "exited" /\ opErr # NoErr) => exitCode # 0

====
